---- MODULE Spec2Model ----
(***************************************************************************)
(* A model of rust-libtlp: the NetTLP DMA session (src/src/nettlp.rs) and  *)
(* the TLP header arithmetic it uses (src/src/tlp.rs).                     *)
(*                                                                         *)
(* One session performs dma_read / dma_write calls one after the other.    *)
(* The remote end of the socket is the environment: it answers a read      *)
(* request truthfully (a chain of completion-with-data fragments split at  *)
(* DW boundaries), or sends an arbitrary datagram, or stays silent.        *)
(*                                                                         *)
(* Bytes are symbolic: a byte is a record naming where it came from        *)
(* (remote memory at an address, the zero fill of the receive buffer, a    *)
(* byte invented by a misbehaving remote, or never written).               *)
(***************************************************************************)
EXTENDS Integers, Sequences, FiniteSets, TLC

\* ------------------------------------------------------------------ bounds

\* Largest len of a dma_read / dma_write call.
MaxLen == 5
\* Largest number of request datagrams one call may send in the model.
MaxSent == 4
\* Stand-in for 2^64, the modulus of usize/u64 arithmetic: larger than every
\* quantity of the model, which is all that a wrapped difference is used for.
WordModulus == 1073741824

\* Largest address and byte count a request header is built for on its own.
MaxAddr == 8
MaxCount == 9

\* The addresses calls are made at: around 0, and around the 4 KiB boundary.
ReadAddrs == {0, 3, 4093, 4095}
WriteAddrs == {0, 1, 4, 4092}
\* The destination's capacity less the call's len.
CapSlack == {0 - 1, 1}
\* The values of the session's mrrs field.
MrrsValues == {0, 4, 512}

\* ------------------------------------------------------------ wire sizes

\* size_of::<NetTlpHdr>(): seq u16 + timestamp u32, packed.
nh_size == 6
\* size_of::<TlpCplHdr>(): three DWs, packed.
cpl_size == 12
\* Extra bytes of the receive buffer for non DW-aligned data.
etra_bytes == 6

CPL_FMT_TYPE == 74
CPL_NODATA_FMT_TYPE == 10

\* ---------------------------------------------------------------- helpers

Min(a, b) == IF a <= b THEN a ELSE b

\* 2^k for small k.
Pow2(k) == CASE k = 0 -> 1 [] k = 1 -> 2 [] k = 2 -> 4 [] k = 3 -> 8
             [] k = 4 -> 16 [] k = 5 -> 32 [] k = 6 -> 64 [] OTHER -> 128

\* !(0xF << k) & 0xF on a u8, for 0 <= k <= 7: the low k bits, at most four.
LowBits(k) == IF k >= 4 THEN 15 ELSE Pow2(k) - 1

\* ------------------------------------------------------------ symbolic bytes

Mem(a) == [src |-> "mem", at |-> a]
ZeroByte == [src |-> "zero", at |-> 0]
JunkByte == [src |-> "junk", at |-> 0]
UninitByte == [src |-> "uninit", at |-> 0]

\* --------------------------------------------------- tlp.rs: byte enables

\* wrapping subtraction of machine words
WrapSub(a, b) == IF a >= b THEN a - b ELSE a - b + WordModulus

\* calc_lastbe subtracts 4 from addr + count when that sum is a multiple of
\* 4: the subtraction underflows when the sum is 0.
calc_lastbe_underflows(addr, count) ==
    LET end == addr + count IN (end % 4 = 0) /\ end < 4

calc_lastbe(addr, count) ==
    LET start == (addr \div 4) * 4
        end == addr + count
        end_start_ == IF end % 4 = 0 THEN WrapSub(end, 4) ELSE (end \div 4) * 4
        end_start == IF end_start_ <= start THEN addr + 4 ELSE end_start_
    IN IF end < end_start THEN 0 ELSE LowBits(end - end_start)

calc_firstbe(addr, count) ==
    LET be == IF count < 4 THEN LowBits(count) ELSE 15
    IN (be * Pow2(addr % 4)) % 16

calc_be(addr, count) == calc_lastbe(addr, count) * 16 + calc_firstbe(addr, count)

\* Mutant of calc_length: the DWs are counted from addr, not from the DW
\* that holds it.
calc_length_from_addr(addr, count) == (count + 3) \div 4

calc_length(addr, count) ==
    LET start == addr - (addr % 4)
        end == addr + count
        len == ((end - start) \div 4) % 65536
    IN IF (end - start) % 4 > 0 THEN len + 1 ELSE len

\* --------------------------------------------- tlp.rs: completion header

\* CplStatus::from(stcnt & CPL_STATUS_MASK), stcnt's top three bits being st.
CplStatus_from(masked) ==
    CASE masked = 0 -> "Success"
      [] masked = 8192 -> "Unsupported"
      [] masked = 16384 -> "ConfigurationRequestStatus"
      [] masked = 32768 -> "CompleterAbort"
      [] OTHER -> "Unknown"

\* stcnt as the big-endian 16-bit word: status in the top 3 bits, count below.
stcnt_of(h) == h.status * 8192 + h.count

\* The byte orders a build's target can have.
Hosts == {"little", "big"}

\* A 16-bit field of a packed struct read from memory bytes b0, b1 (in address
\* order) as the host reads it.
native16(host, b0, b1) == IF host = "little" THEN b1 * 256 + b0 ELSE b0 * 256 + b1

\* u16::to_be: the bytes swapped on a little-endian host, nothing on a
\* big-endian one.
to_be16(host, v) == IF host = "little" THEN (v % 256) * 256 + (v \div 256) ELSE v

\* The header's falen and stcnt fields, the header's twelve bytes being b.
falen_of(host, b) == native16(host, b[3], b[4])
stcnt_field(host, b) == native16(host, b[7], b[8])

\* TlpCplHdr::length, count and the status bits, on the header bytes b.
length(host, b) == to_be16(host, falen_of(host, b)) % 1024
count(host, b) == to_be16(host, stcnt_field(host, b)) % 4096
status_bits(host, b) == to_be16(host, stcnt_field(host, b)) \div 8192

\* ptr::read of the header from the receive buffer: the fields the accessors
\* give for the twelve header bytes b.
TlpCplHdr_read(host, b) ==
    [fmt_type |-> b[1],
     status |-> status_bits(host, b),
     length |-> length(host, b),
     count |-> count(host, b),
     lowaddr |-> b[12]]

status(h) == CplStatus_from(stcnt_of(h) - (stcnt_of(h) % 8192))

is_valid_status(h) == status(h) = "Success"

\* Mutant of is_last_tlp: the header is the last when its byte count fits in
\* its DWs.
is_last_tlp_when_count_fits(h) == h.count <= h.length * 4

\* Mutant of is_last_tlp: the low address is left out of the sum.
is_last_tlp_ignores_lowaddr(h) == h.length = (h.count + 3) \div 4

is_last_tlp(h) == h.length = ((h.lowaddr % 4) + h.count + 3) \div 4

is_completion_with_data(h) == h.fmt_type = CPL_FMT_TYPE

is_completion(h) == h.fmt_type = CPL_NODATA_FMT_TYPE

\* ------------------------------------------------------------------ state

VARIABLES
    mrrs,            \* NetTlp.mrrs, fixed at construction
    pc,              \* "idle", "loop", "recv", "done", "failed", "panicked"
    op,              \* "none", "read", "write": the call in progress or last made
    addr,            \* the call's addr
    total_len,       \* the call's len (read) or buf.len() (write)
    cap,             \* read: bytes the destination can take (remaining_mut)
    p,               \* dma_read / dma_write: p
    received,        \* dma_read: received; dma_write: sent
    len,             \* the current chunk's length
    cur,             \* recv_cpld: received, the write cursor in the chunk
    recv_hdr,        \* recv_cpld: the completion header bytes of recv_buf
    recv_buf,        \* recv_cpld: recv_buf past the two headers
    dest,            \* read: the destination buffer, cap bytes
    err,             \* the error a failed call returns
    nSent,           \* request datagrams sent by the call
    lastReq,         \* the last request datagram sent
    remoteNext,      \* the remote: first byte of the next truthful fragment, or -1
    hist,            \* history of the call, for stating properties
    sessions,        \* the sessions NetTlp::new has bound and that still live
    packet,          \* send_mr: the bytes of the last datagram built
    late,            \* the completion on its way to the socket when a call timed out
    perf             \* tlpperf: the RUNNING flag and the benchmark's threads

vars == <<mrrs, pc, op, addr, total_len, cap, p, received, len,
          cur, recv_hdr, recv_buf, dest, err, nSent, lastReq, remoteNext, hist,
          sessions, packet, late, perf>>

\* No datagram built: the NetTLP header, the TLP header and the data behind it.
NoPacket == [nh |-> <<>>, mh |-> <<>>, data |-> 0]

\* No completion is on its way.
NoLate == [n |-> 0 - 1, fmt_type |-> 0, status |-> 0, length |-> 0, count |-> 0,
           lowaddr |-> 0, payload |-> <<>>]

\* No benchmark has been started.
NoPerf == [RUNNING |-> TRUE, nthreads |-> 0, count |-> 0, duration |-> 0,
           bench |-> <<>>, counter |-> [at |-> "none", count |-> 0],
           main |-> "none", joined |-> 0]

\* What the DMA calls of one session leave alone: the bindings of the host's
\* sessions, the datagram bytes followed only where requests are encoded, a
\* completion that is on its way, and the threads of a benchmark.
wire == <<sessions, packet, late, perf>>

NoErr == [kind |-> "none", detail |-> "", addr |-> 0]
Error(kind, detail, a) == [kind |-> kind, detail |-> detail, addr |-> a]

NoReq == [t |-> "none", p |-> 0, len |-> 0, remain |-> 0, fmt_type |-> 0,
          falen |-> 0, dw |-> 0, addr |-> 0, lo |-> 0, hi |-> 0]

ZeroHdr == [fmt_type |-> 0, status |-> 0, length |-> 0, count |-> 0, lowaddr |-> 0]

\* What the history keeps of a datagram: its length and the header fields the
\* validation reads.
NoDgram == [n |-> 0 - 1, fmt_type |-> 0, status |-> 0]
Seen(d) == [n |-> d.n, fmt_type |-> d.fmt_type, status |-> d.status]

NoHist == [truthful |-> TRUE, firstErr |-> NoErr, sentAtErr |-> 0, nDgrams |-> 0,
           last |-> NoDgram, copied |-> 0, timeouts |-> 0, frags |-> 0]

Init ==
    /\ mrrs \in MrrsValues
    /\ pc = "idle"
    /\ op = "none"
    /\ addr = 0 /\ total_len = 0 /\ cap = 0
    /\ p = 0 /\ received = 0 /\ len = 0 /\ cur = 0
    /\ recv_hdr = ZeroHdr
    /\ recv_buf = <<>>
    /\ dest = <<>>
    /\ err = NoErr
    /\ nSent = 0
    /\ lastReq = NoReq
    /\ remoteNext = 0 - 1
    /\ hist = NoHist
    /\ sessions = {} /\ packet = NoPacket /\ late = NoLate /\ perf = NoPerf

\* No call has been made on the session.
NoCall ==
    /\ op = "none"
    /\ addr = 0 /\ total_len = 0 /\ cap = 0
    /\ p = 0 /\ received = 0 /\ len = 0 /\ cur = 0
    /\ dest = <<>>
    /\ err = NoErr
    /\ nSent = 0
    /\ lastReq = NoReq
    /\ remoteNext = 0 - 1
    /\ hist = NoHist

\* ----------------------------------------------- nettlp.rs: sending requests

\* Mutant of read_chunk_len: the distance to the page boundary is left out.
read_chunk_len_no_page(remain, m, pp, chunk_len) ==
    Min(Min(remain, m), chunk_len)

\* Mutant of read_chunk_len: the session's mrrs is left out.
read_chunk_len_no_mrrs(remain, m, pp, chunk_len) ==
    Min(Min(remain, 4096 - (pp % 4096)), chunk_len)

\* The chunk length of one loop iteration of dma_read.
read_chunk_len(remain, m, pp, chunk_len) ==
    LET max_len == 4096 - (pp % 4096)
    IN Min(Min(Min(remain, m), max_len), chunk_len)

\* The chunk length of one loop iteration of dma_write.
write_chunk_len(remain, m, pp) ==
    LET max_len == 4096 - (pp % 4096)
    IN Min(Min(remain, m), max_len)

\* TlpMrHdr::new as called by send_mr: the request header for (a, l). The
\* model's addresses are all below 2^32, so send_mr takes its 32-bit branch.
TlpMrHdr_new(t, a, l, remain, lo) ==
    [t |-> t, p |-> a, len |-> l, remain |-> remain,
     fmt_type |-> IF t = "Mrd" THEN 0 ELSE 64,
     falen |-> calc_length(a, l),
     dw |-> calc_be(a, l),
     addr |-> a - (a % 4),
     lo |-> lo, hi |-> lo + l]

\* The builds an arithmetic overflow can meet: TRUE panics on it (overflow
\* checks on, as in a debug build), FALSE wraps (as in a release build).
Builds(overflows) == IF overflows THEN BOOLEAN ELSE {FALSE}

\* Building the header aborts the process when calc_lastbe underflows in a
\* build with overflow checks.
send_mr_panics(a, l, overflow_checks) ==
    overflow_checks /\ calc_lastbe_underflows(a, l)

\* ----------------------------------------- nettlp.rs: receiving completions

bufsize(buflen) == nh_size + cpl_size + buflen + etra_bytes

\* socket.recv(&mut recv_buf): the datagram d overwrites the first n bytes of
\* recv_buf (n = the datagram's length, cut to the buffer's); the rest stays.
recv_n(d, buflen) == Min(d.n, bufsize(buflen))

recv_into_hdr(d, n) ==
    [fmt_type |-> IF n >= nh_size + 1 THEN d.fmt_type ELSE recv_hdr.fmt_type,
     length |-> IF n >= nh_size + 4 THEN d.length ELSE recv_hdr.length,
     status |-> IF n >= nh_size + 8 THEN d.status ELSE recv_hdr.status,
     count |-> IF n >= nh_size + 8 THEN d.count ELSE recv_hdr.count,
     lowaddr |-> IF n >= nh_size + 12 THEN d.lowaddr ELSE recv_hdr.lowaddr]

recv_into_buf(d, n) ==
    [i \in 1..Len(recv_buf) |->
        IF nh_size + cpl_size + i <= n THEN d.payload[i] ELSE recv_buf[i]]

\* Mutant of span_offset: the low address is ignored.
span_offset_ignores_lowaddr(h) == 0

\* The span arithmetic of recv_cpld for header h.
span_offset(h) == h.lowaddr % 4
span_start(h) == nh_size + cpl_size + span_offset(h)
span_end(h) ==
    IF h.count <= h.length * 4
    THEN span_start(h) + h.count
    ELSE span_start(h) + h.length * 4 - span_offset(h)
span_underflows(h) == span_end(h) < span_start(h)
span_size(h) == WrapSub(span_end(h), span_start(h))

\* Mutant of recv_error: a timeout is not told apart from an I/O error.
recv_error_always_io(eagain) == Error("Io", "", 0)

\* The outcome of receiving an error from socket.recv.
recv_error(eagain) ==
    IF eagain THEN Error("Timeout", "", 0) ELSE Error("Io", "", 0)

\* Mutant of size_check: the check against the destination window is missing.
size_check_no_window(size, n, buf_len) ==
    IF size > n - (nh_size + cpl_size) THEN "size" ELSE ""

\* The two size checks that precede the copy; "" when both pass.
size_check(size, n, buf_len) ==
    IF size > n - (nh_size + cpl_size) THEN "size"
    ELSE IF size > buf_len THEN "internal"
    ELSE ""

\* Mutant of validate: a completion without data is not told apart from any
\* other wrong format.
validate_no_address_error(n, h, a) ==
    IF n < nh_size + cpl_size THEN Error("InvalidData", "short", 0)
    ELSE IF ~is_completion_with_data(h) THEN Error("InvalidData", "fmt", 0)
    ELSE IF ~is_valid_status(h) THEN Error("InvalidData", "status", 0)
    ELSE NoErr

\* Mutant of validate: the header is decoded before the datagram's length is
\* checked.
validate_decodes_first(n, h, a) ==
    IF ~is_completion_with_data(h)
    THEN IF is_completion(h) THEN Error("InvalidAddress", "", a)
         ELSE Error("InvalidData", "fmt", 0)
    ELSE IF n < nh_size + cpl_size THEN Error("InvalidData", "short", 0)
    ELSE IF ~is_valid_status(h) THEN Error("InvalidData", "status", 0)
    ELSE NoErr

\* The validation of the header that precedes the span arithmetic; the error
\* it returns, or NoErr.
validate(n, h, a) ==
    IF n < nh_size + cpl_size THEN Error("InvalidData", "short", 0)
    ELSE IF ~is_completion_with_data(h)
         THEN IF is_completion(h) THEN Error("InvalidAddress", "", a)
              ELSE Error("InvalidData", "fmt", 0)
    ELSE IF ~is_valid_status(h) THEN Error("InvalidData", "status", 0)
    ELSE NoErr

\* buf[buf_start..buf_end].copy_from_slice(&recv_buf[start..end]), buf being
\* the chunk's window of the destination, which starts at base.
copy_into(d0, base, buf_start, size, rb, offset) ==
    [i \in 1..Len(d0) |->
        IF base + buf_start < i /\ i <= base + buf_start + size
        THEN rb[offset + (i - base - buf_start)]
        ELSE d0[i]]

\* One iteration of recv_cpld's loop on datagram d.
\* out: "continue" (loop again), "ok" (break), "err" (return Err), "panic".
recv_step(d, overflow_checks) ==
    LET n == recv_n(d, len)
        h == recv_into_hdr(d, n)
        rb == recv_into_buf(d, n)
        v == validate(n, h, p)
        base == [out |-> "err", err |-> v, cur |-> cur, dest |-> dest,
                 recv_hdr |-> h, recv_buf |-> rb, copied |-> 0]
        size == span_size(h)
        buf_len == len - cur
        chk == size_check(size, n, buf_len)
    IN IF v # NoErr THEN base
       ELSE IF span_underflows(h) /\ overflow_checks
            THEN [base EXCEPT !.out = "panic", !.err = Error("panic", "span", 0)]
       ELSE IF chk # ""
            THEN [base EXCEPT !.err = Error("InvalidData", chk, 0)]
       ELSE IF span_end(h) > bufsize(len)
            THEN [base EXCEPT !.out = "panic", !.err = Error("panic", "slice", 0)]
       ELSE [base EXCEPT
                !.out = IF is_last_tlp(h) THEN "ok" ELSE "continue",
                !.err = NoErr,
                !.cur = cur + size,
                !.dest = copy_into(dest, received, cur, size, rb, span_offset(h)),
                !.copied = size]

\* ------------------------------------------------------------- the remote

\* The truthful fragment of k DWs that starts at byte fb of a request for
\* [p, p + len): lowaddr is the low 7 bits of fb, count the bytes from fb to
\* the end of the request, and the payload is the k DWs that hold them.
TruthfulFragment(fb, k) ==
    LET dw0 == fb - (fb % 4)
    IN [n |-> nh_size + cpl_size + 4 * k,
        fmt_type |-> CPL_FMT_TYPE,
        status |-> 0,
        length |-> k,
        count |-> p + len - fb,
        lowaddr |-> fb % 128,
        payload |-> [i \in 1..(4 * k) |-> Mem(dw0 + i - 1)]]

\* DWs of the outstanding request not yet sent by the truthful remote.
DWsLeft(fb) == calc_length(fb, p + len - fb)

FmtValues == {CPL_FMT_TYPE, CPL_NODATA_FMT_TYPE, 0}
StatusValues == {0, 1}
HostileLengths == {0, 1, 2}
HostileCounts == {0, 1, 4, 9}
LowAddrs == {0, 3}
ShortLens == {0, 7, 17}

JunkPayload(k) == [i \in 1..k |-> JunkByte]

\* The datagrams a misbehaving remote sends. Under a header that passes
\* validation length, count and lowaddr vary freely, and the payload is the
\* length DWs the header announces or is cut off after the header; under a
\* header that fails validation the datagram's size, fmt_type and status vary.
HostileDgrams ==
    { [n |-> nh_size + cpl_size + (IF whole THEN 4 * l ELSE 0),
       fmt_type |-> CPL_FMT_TYPE, status |-> 0,
       length |-> l, count |-> c, lowaddr |-> la,
       payload |-> JunkPayload(IF whole THEN 4 * l ELSE 0)] :
         l \in HostileLengths, c \in HostileCounts, la \in LowAddrs,
         whole \in BOOLEAN }
    \cup
    { [n |-> n, fmt_type |-> f, status |-> st,
       length |-> 1, count |-> 1, lowaddr |-> 0,
       payload |-> JunkPayload(IF n > nh_size + cpl_size
                               THEN n - nh_size - cpl_size ELSE 0)] :
         n \in ShortLens \cup {nh_size + cpl_size + 4},
         f \in FmtValues, st \in StatusValues }

\* ----------------------------------------------------------------- actions

\* dma_read is called: the assertion on the destination's capacity, then the
\* loop is entered.
DmaRead(a, l, c) ==
    /\ pc = "idle"
    /\ op' = "read"
    /\ addr' = a /\ total_len' = l /\ cap' = c
    /\ p' = a /\ received' = 0 /\ len' = 0 /\ cur' = 0
    /\ dest' = [i \in 1..c |-> UninitByte]
    /\ recv_hdr' = ZeroHdr /\ recv_buf' = <<>>
    /\ nSent' = 0 /\ lastReq' = NoReq /\ remoteNext' = 0 - 1
    /\ hist' = NoHist
    /\ IF l <= c
       THEN pc' = "loop" /\ err' = NoErr
       ELSE pc' = "panicked" /\ err' = Error("panic", "assert", 0)
    /\ UNCHANGED mrrs
    /\ UNCHANGED wire

\* What dma_read does with the result of send_mrd.
after_send_mrd(sent_ok) == IF sent_ok THEN "recv" ELSE "failed"

\* One iteration of dma_read's loop up to the call of recv_cpld: the chunk
\* length, send_mrd, and recv_cpld's allocation of its zeroed buffer.
ReadSend(sent_ok, overflow_checks) ==
    /\ pc = "loop" /\ op = "read"
    /\ nSent < MaxSent
    /\ LET remain == total_len - received
           l == read_chunk_len(remain, mrrs, p, cap - received)
       IN /\ len' = l
          /\ overflow_checks \in Builds(calc_lastbe_underflows(p, l))
          /\ IF send_mr_panics(p, l, overflow_checks)
             THEN /\ pc' = "panicked"
                  /\ err' = Error("panic", "calc_lastbe", 0)
                  /\ UNCHANGED <<nSent, lastReq, remoteNext, recv_buf, recv_hdr, hist>>
             ELSE /\ pc' = after_send_mrd(sent_ok)
                  /\ err' = IF sent_ok THEN NoErr ELSE Error("Io", "send", 0)
                  /\ nSent' = IF sent_ok THEN nSent + 1 ELSE nSent
                  /\ lastReq' = IF sent_ok
                                THEN TlpMrHdr_new("Mrd", p, l, remain, received)
                                ELSE lastReq
                  /\ remoteNext' = IF sent_ok /\ l > 0 THEN p ELSE 0 - 1
                  /\ recv_hdr' = ZeroHdr
                  /\ recv_buf' = [i \in 1..(l + etra_bytes) |-> ZeroByte]
                  /\ hist' = IF sent_ok \/ hist.firstErr # NoErr
                             THEN [hist EXCEPT !.frags = 0]
                             ELSE [hist EXCEPT !.firstErr = Error("Io", "send", 0),
                                               !.sentAtErr = nSent,
                                               !.frags = 0]
    /\ cur' = 0
    /\ UNCHANGED <<mrrs, op, addr, total_len, cap, p, received, dest>>
    /\ UNCHANGED wire

\* Mutant of after_recv_cpld: after a fragment that is not the last, the loop
\* of dma_read is re-entered and the request sent again.
after_recv_cpld_resends(out) ==
    CASE out = "continue" -> "loop"
      [] out = "err" -> "failed"
      [] out = "panic" -> "panicked"
      [] OTHER -> IF received + len = total_len THEN "done" ELSE "loop"

\* Mutant of after_recv_cpld: an error of recv_cpld is dropped and the loop
\* goes on with the next chunk.
after_recv_cpld_drops_error(out) ==
    CASE out = "continue" -> "recv"
      [] out = "panic" -> "panicked"
      [] OTHER -> IF received + len >= total_len THEN "done" ELSE "loop"

\* What dma_read does with the result of recv_cpld: the next pc.
after_recv_cpld(out) ==
    CASE out = "continue" -> "recv"
      [] out = "err" -> "failed"
      [] out = "panic" -> "panicked"
      [] OTHER -> IF received + len = total_len THEN "done" ELSE "loop"

\* The receive loop takes datagram d; truthful says the remote sent it as the
\* next fragment of its answer.
Receive(d, truthful, next, overflow_checks) ==
    \E r \in {recv_step(d, overflow_checks)} :
       /\ pc' = after_recv_cpld(r.out)
       /\ err' = r.err
       /\ cur' = r.cur
       /\ dest' = r.dest
       /\ recv_hdr' = r.recv_hdr
       /\ recv_buf' = r.recv_buf
       /\ received' = IF r.out = "ok" THEN received + len ELSE received
       /\ p' = IF r.out = "ok" THEN p + len ELSE p
       /\ remoteNext' = next
       /\ hist' = [hist EXCEPT
                     !.truthful = hist.truthful /\ truthful,
                     !.nDgrams = Min(hist.nDgrams + 1, 2),
                     !.frags = Min(hist.frags + 1, 2),
                     !.last = Seen(d),
                     !.copied = r.copied,
                     !.firstErr = IF r.out \in {"err", "panic"} /\ @ = NoErr
                                  THEN r.err ELSE @,
                     !.sentAtErr = IF r.out \in {"err", "panic"}
                                      /\ hist.firstErr = NoErr
                                   THEN nSent ELSE @]
       /\ UNCHANGED <<mrrs, op, addr, total_len, cap, len,
                      nSent, lastReq, sessions, packet, perf>>

\* The remote sends the next fragment of its truthful answer: k DWs.
RecvTruthful(k) ==
    /\ pc = "recv"
    /\ remoteNext >= 0
    /\ k \in 1..DWsLeft(remoteNext)
    /\ LET fb == remoteNext
           nxt == fb - (fb % 4) + 4 * k
       IN Receive(TruthfulFragment(fb, k), TRUE,
                  IF nxt >= p + len THEN 0 - 1 ELSE nxt, FALSE)
    /\ UNCHANGED late

\* The remote sends some other datagram.
RecvHostile(d, overflow_checks) ==
    /\ pc = "recv"
    /\ overflow_checks \in Builds(span_underflows(recv_into_hdr(d, recv_n(d, len))))
    /\ Receive(d, FALSE, remoteNext, overflow_checks)
    /\ UNCHANGED late

\* socket.recv returns an error, lt being the completion then on its way.
RecvError(eagain, lt) ==
    /\ pc = "recv"
    /\ pc' = after_recv_cpld("err")
    /\ err' = recv_error(eagain)
    /\ hist' = [hist EXCEPT !.firstErr = IF @ = NoErr THEN recv_error(eagain) ELSE @,
                            !.sentAtErr = IF hist.firstErr = NoErr THEN nSent ELSE @,
                            !.copied = 0,
                            !.last = NoDgram,
                            !.timeouts = IF eagain THEN 1 ELSE @]
    /\ late' = lt
    /\ UNCHANGED <<mrrs, op, addr, total_len, cap, p, received,
                   len, cur, recv_hdr, recv_buf, dest, nSent, lastReq, remoteNext>>
    /\ UNCHANGED <<sessions, packet, perf>>

\* socket.recv fails: with EAGAIN after the read timeout, or otherwise.
RecvFail(eagain) == RecvError(eagain, late)

\* Mutant of dma_write_precondition: only the length is checked.
dma_write_precondition_len_only(a, l) == l % 4 = 0

\* The assertion that opens dma_write.
dma_write_precondition(a, l) == (a % 4 = 0) /\ (l % 4 = 0)

\* dma_write is called.
DmaWrite(a, l) ==
    /\ pc = "idle"
    /\ op' = "write"
    /\ addr' = a /\ total_len' = l /\ cap' = 0
    /\ p' = a /\ received' = 0 /\ len' = 0 /\ cur' = 0
    /\ dest' = <<>> /\ recv_hdr' = ZeroHdr /\ recv_buf' = <<>>
    /\ nSent' = 0 /\ lastReq' = NoReq /\ remoteNext' = 0 - 1
    /\ hist' = NoHist
    /\ IF dma_write_precondition(a, l)
       THEN pc' = "loop" /\ err' = NoErr
       ELSE pc' = "panicked" /\ err' = Error("panic", "assert", 0)
    /\ UNCHANGED mrrs
    /\ UNCHANGED wire

\* Mutant of after_send_mwr: the loop is left after the first chunk sent.
after_send_mwr_one_chunk(sent_ok, sent_now) ==
    IF ~sent_ok THEN "failed" ELSE "done"

\* What dma_write does after send_mwr: the next pc.
after_send_mwr(sent_ok, sent_now) ==
    IF ~sent_ok THEN "failed"
    ELSE IF sent_now >= total_len THEN "done" ELSE "loop"

\* One iteration of dma_write's loop.
WriteSend(sent_ok, overflow_checks) ==
    /\ pc = "loop" /\ op = "write"
    /\ nSent < MaxSent
    /\ LET remain == total_len - received
           l == write_chunk_len(remain, mrrs, p)
       IN /\ len' = l
          /\ overflow_checks \in Builds(calc_lastbe_underflows(p, l))
          /\ IF send_mr_panics(p, l, overflow_checks)
             THEN /\ pc' = "panicked"
                  /\ err' = Error("panic", "calc_lastbe", 0)
                  /\ UNCHANGED <<nSent, lastReq, received, p, hist>>
             ELSE /\ pc' = after_send_mwr(sent_ok, received + l)
                  /\ err' = IF sent_ok THEN NoErr ELSE Error("Io", "send", 0)
                  /\ nSent' = IF sent_ok THEN nSent + 1 ELSE nSent
                  /\ lastReq' = IF sent_ok
                                THEN TlpMrHdr_new("Mwr", p, l, remain, received)
                                ELSE lastReq
                  /\ received' = IF sent_ok THEN received + l ELSE received
                  /\ p' = IF sent_ok THEN p + l ELSE p
                  /\ hist' = IF sent_ok \/ hist.firstErr # NoErr THEN hist
                             ELSE [hist EXCEPT !.firstErr = Error("Io", "send", 0),
                                               !.sentAtErr = nSent]
    /\ UNCHANGED <<mrrs, op, addr, total_len, cap, cur, recv_hdr,
                   recv_buf, dest, remoteNext>>
    /\ UNCHANGED wire

\* The call has returned and its result was taken; the session is free for
\* the next call.
Return ==
    /\ pc \in {"done", "failed"}
    /\ pc' = "idle"
    /\ op' = "none"
    /\ addr' = 0 /\ total_len' = 0 /\ cap' = 0
    /\ p' = 0 /\ received' = 0 /\ len' = 0 /\ cur' = 0
    /\ recv_hdr' = ZeroHdr /\ recv_buf' = <<>> /\ dest' = <<>>
    /\ err' = NoErr /\ nSent' = 0 /\ lastReq' = NoReq
    /\ remoteNext' = 0 - 1
    /\ hist' = NoHist
    /\ UNCHANGED mrrs
    /\ UNCHANGED wire

Next ==
    \/ \E a \in ReadAddrs, l \in 0..MaxLen, s \in CapSlack :
          l + s >= 0 /\ DmaRead(a, l, l + s)
    \/ \E ok \in BOOLEAN, oc \in BOOLEAN : ReadSend(ok, oc)
    \/ \E k \in 1..(MaxLen \div 4 + 2) : RecvTruthful(k)
    \/ \E d \in HostileDgrams, oc \in BOOLEAN : RecvHostile(d, oc)
    \/ \E e \in BOOLEAN : RecvFail(e)
    \/ \E a \in WriteAddrs, l \in 0..MaxLen : DmaWrite(a, l)
    \/ \E ok \in BOOLEAN, oc \in BOOLEAN : WriteSend(ok, oc)
    \/ Return

Spec == Init /\ [][Next]_vars

\* --------------------------------------------------- calls that keep running

\* The header-only completions with data and status success that announce
\* no byte: count = 0 under any length and low address.
StallingDgrams ==
    {d \in HostileDgrams :
        d.fmt_type = CPL_FMT_TYPE /\ d.status = 0 /\ d.count = 0
        /\ d.n = nh_size + cpl_size}

\* A session with mrrs of one DW or the default of 512 bytes.
InitLive ==
    /\ mrrs \in {4, 512}
    /\ pc = "idle"
    /\ recv_hdr = ZeroHdr /\ recv_buf = <<>>
    /\ NoCall
    /\ sessions = {} /\ packet = NoPacket /\ late = NoLate /\ perf = NoPerf

\* socket.recv returns: with a datagram, or with an error when the read
\* timeout set in NetTlp::new expires.
RecvReturns ==
    \/ \E k \in 1..(MaxLen \div 4 + 2) : RecvTruthful(k)
    \/ \E d \in StallingDgrams : RecvHostile(d, FALSE)
    \/ \E e \in BOOLEAN : RecvFail(e)

\* The reads of the session against a remote that answers truthfully, stays
\* silent, or sends completions that announce no byte.
NextLive ==
    \/ \E a \in {0, 3}, l \in 1..MaxLen : DmaRead(a, l, l)
    \/ \E ok \in BOOLEAN, oc \in BOOLEAN : ReadSend(ok, oc)
    \/ RecvReturns
    \/ Return

\* The thread that made the call keeps running: a request that is due is
\* sent, and a receive that was started returns.
Fairness ==
    /\ WF_vars(\E ok \in BOOLEAN, oc \in BOOLEAN : ReadSend(ok, oc))
    /\ WF_vars(RecvReturns)

SpecLive == InitLive /\ [][NextLive]_vars /\ Fairness

\* ------------------------------------------------ requests of up to a page

\* A session whose mrrs is the default, a page, or two pages.
InitPage ==
    /\ mrrs \in {512, 4096, 8192}
    /\ pc = "idle"
    /\ recv_hdr = ZeroHdr /\ recv_buf = <<>>
    /\ NoCall
    /\ sessions = {} /\ packet = NoPacket /\ late = NoLate /\ perf = NoPerf

\* The requests of calls for up to two pages, at a page start, next to it,
\* and 3 bytes before the next page; no request is answered.
NextPage ==
    \/ \E a \in {0, 1, 4, 4093}, l \in {1, 4, 4092, 4095, 4096, 8192} :
          DmaRead(a, l, l)
    \/ \E ok \in BOOLEAN, oc \in BOOLEAN : ReadSend(ok, oc)
    \/ RecvFail(TRUE)
    \/ \E a \in {0, 4}, l \in {4, 4092, 4096, 8192} : DmaWrite(a, l)
    \/ \E ok \in BOOLEAN, oc \in BOOLEAN : WriteSend(ok, oc)
    \/ Return

SpecPage == InitPage /\ [][NextPage]_vars

\* ------------------------------------------- a completion that arrives late

\* The read timeout of the call expires while the remote's answer to its
\* request, one completion for the whole request, is still on its way.
RecvTimeoutBeforeAnswer ==
    /\ remoteNext >= 0 /\ late = NoLate
    /\ RecvError(TRUE, TruthfulFragment(remoteNext, DWsLeft(remoteNext)))

\* The late completion has arrived at the session's socket, and the receive
\* loop of the call then in progress takes it: recv_cpld reads whatever
\* datagram the socket holds.
RecvStale ==
    /\ pc = "recv" /\ late # NoLate
    /\ Receive(late, FALSE, remoteNext, FALSE)
    /\ late' = NoLate

\* A session with the default mrrs of 512 bytes.
InitStale ==
    /\ mrrs = 512
    /\ pc = "idle"
    /\ recv_hdr = ZeroHdr /\ recv_buf = <<>>
    /\ NoCall
    /\ sessions = {} /\ packet = NoPacket /\ late = NoLate /\ perf = NoPerf

\* Reads made one after the other on the session, the remote answering each
\* request truthfully, in time or late.
NextStale ==
    \/ \E a \in {0, 3, 4092}, l \in 1..MaxLen : DmaRead(a, l, l)
    \/ \E ok \in BOOLEAN, oc \in BOOLEAN : ReadSend(ok, oc)
    \/ \E k \in 1..(MaxLen \div 4 + 2) : RecvTruthful(k)
    \/ RecvTimeoutBeforeAnswer
    \/ RecvFail(TRUE)
    \/ RecvStale
    \/ Return

SpecStale == InitStale /\ [][NextStale]_vars

\* ------------------------------------------- reads answered fragment by fragment

\* Largest payload of one completion of the splitting remote, in bytes.
MaxFragment == 256

\* The reads followed: 7 bytes at 0x3, and 1024 bytes at a page start, at an
\* unaligned address, and at addresses from which the read crosses into the
\* next page after 256 and after 3 bytes.
SplitReads == {<<3, 7>>, <<0, 1024>>, <<3, 1024>>, <<3840, 1024>>, <<4093, 1024>>}

\* The DWs the splitting remote puts in its next completion, left being the
\* DWs the request still needs: a full or a half-full completion, and 2 DWs
\* when 3 are needed.
SplitDWs(left) ==
    {Min(left, MaxFragment \div 4), Min(left, MaxFragment \div 8)}
        \cup {k \in {2} : left = 3}

\* A session with mrrs = 512.
InitSplit ==
    /\ mrrs = 512
    /\ pc = "idle"
    /\ recv_hdr = ZeroHdr /\ recv_buf = <<>>
    /\ NoCall
    /\ sessions = {} /\ packet = NoPacket /\ late = NoLate /\ perf = NoPerf

NextSplit ==
    \/ \E c \in SplitReads : DmaRead(c[1], c[2], c[2])
    \/ \E ok \in BOOLEAN, oc \in BOOLEAN : ReadSend(ok, oc)
    \/ \E k \in 1..(MaxFragment \div 4) :
          k \in SplitDWs(DWsLeft(remoteNext)) /\ RecvTruthful(k)
    \/ RecvFail(TRUE)
    \/ Return

SpecSplit == InitSplit /\ [][NextSplit]_vars

\* ------------------------------------------------ writes of several chunks

\* Largest buf.len() of a dma_write call followed chunk by chunk.
MaxWrite == 16

\* A session whose mrrs is one DW, two DWs, or the default of 512 bytes.
InitWrite ==
    /\ mrrs \in {4, 8, 512}
    /\ pc = "idle"
    /\ recv_hdr = ZeroHdr /\ recv_buf = <<>>
    /\ NoCall
    /\ sessions = {} /\ packet = NoPacket /\ late = NoLate /\ perf = NoPerf

\* Writes at a page start, at an unaligned address, and one and two DWs
\* before the 4 KiB boundary.
NextWrite ==
    \/ \E a \in {0, 2, 4088, 4092}, l \in 0..MaxWrite : DmaWrite(a, l)
    \/ \E ok \in BOOLEAN, oc \in BOOLEAN : WriteSend(ok, oc)
    \/ Return

SpecWrite == InitWrite /\ [][NextWrite]_vars

\* ------------------------------------------- examples/tlpperf.rs: benchmark

\* Largest number of worker threads, and largest --count and --duration.
MaxThreads == 2
MaxIter == 2

\* The state of one session when no call is made on it.
SessionIdle ==
    /\ mrrs = 512
    /\ pc = "idle"
    /\ recv_hdr = ZeroHdr /\ recv_buf = <<>>
    /\ NoCall
    /\ sessions = {} /\ packet = NoPacket /\ late = NoLate

\* benchmark() has spawned nthreads workers and the counter thread, each at
\* the top of its loop, and starts joining them; RUNNING is true.
InitPerf ==
    /\ SessionIdle
    /\ \E n \in 1..MaxThreads, c \in 0..MaxIter, d \in 0..MaxIter :
          perf = [RUNNING |-> TRUE, nthreads |-> n, count |-> c, duration |-> d,
                  bench |-> [i \in 1..n |-> [at |-> "check", count |-> 0]],
                  counter |-> [at |-> "check", count |-> 0],
                  main |-> "join", joined |-> 0]

\* The process lives: main() has neither returned nor panicked.
Alive == perf.main = "join"

\* bench_thread i loads RUNNING at the top of its loop.
BenchCheck(i) ==
    /\ Alive /\ i \in 1..perf.nthreads /\ perf.bench[i].at = "check"
    /\ perf' = [perf EXCEPT !.bench[i].at =
                    IF perf.RUNNING THEN "dma" ELSE "exited"]
    /\ UNCHANGED <<mrrs, pc, op, addr, total_len, cap, p, received, len, cur,
                   recv_hdr, recv_buf, dest, err, nSent, lastReq, remoteNext,
                   hist, sessions, packet, late>>

\* Where bench_thread goes when dma_read has returned, n being its count
\* after the iteration and limit param.count: unwrap() panics on an error.
after_dma_read(ok, n, limit) ==
    IF ~ok THEN "panicked"
    ELSE IF limit > 0 /\ n >= limit THEN "store" ELSE "check"

\* dma_read of bench_thread i returns, Ok or Err; the iteration is counted.
\* The count is followed only when param.count > 0, which is when it is read.
BenchDma(i, ok) ==
    /\ Alive /\ i \in 1..perf.nthreads /\ perf.bench[i].at = "dma"
    /\ LET n == IF ok /\ perf.count > 0
                THEN perf.bench[i].count + 1 ELSE perf.bench[i].count
       IN perf' = [perf EXCEPT !.bench[i] =
                      [at |-> after_dma_read(ok, n, perf.count), count |-> n]]
    /\ UNCHANGED <<mrrs, pc, op, addr, total_len, cap, p, received, len, cur,
                   recv_hdr, recv_buf, dest, err, nSent, lastReq, remoteNext,
                   hist, sessions, packet, late>>

\* bench_thread i has reached its iteration count: it clears RUNNING and
\* leaves its loop.
BenchStore(i) ==
    /\ Alive /\ i \in 1..perf.nthreads /\ perf.bench[i].at = "store"
    /\ perf' = [perf EXCEPT !.RUNNING = FALSE, !.bench[i].at = "exited"]
    /\ UNCHANGED <<mrrs, pc, op, addr, total_len, cap, p, received, len, cur,
                   recv_hdr, recv_buf, dest, err, nSent, lastReq, remoteNext,
                   hist, sessions, packet, late>>

\* count_thread loads RUNNING at the top of its loop, then sleeps a second.
CountCheck ==
    /\ Alive /\ perf.counter.at = "check"
    /\ perf' = [perf EXCEPT !.counter.at =
                    IF perf.RUNNING THEN "sleep" ELSE "exited"]
    /\ UNCHANGED <<mrrs, pc, op, addr, total_len, cap, p, received, len, cur,
                   recv_hdr, recv_buf, dest, err, nSent, lastReq, remoteNext,
                   hist, sessions, packet, late>>

\* count_thread wakes up, loads RUNNING again, prints and counts the second.
\* The count is followed only when duration > 0, which is when it is read.
CountWake ==
    /\ Alive /\ perf.counter.at = "sleep"
    /\ LET n == IF perf.RUNNING /\ perf.duration > 0
                THEN perf.counter.count + 1 ELSE perf.counter.count
       IN perf' = [perf EXCEPT !.counter =
                      [at |-> IF ~perf.RUNNING THEN "exited"
                              ELSE IF perf.duration > 0 /\ n >= perf.duration
                                   THEN "store" ELSE "check",
                       count |-> n]]
    /\ UNCHANGED <<mrrs, pc, op, addr, total_len, cap, p, received, len, cur,
                   recv_hdr, recv_buf, dest, err, nSent, lastReq, remoteNext,
                   hist, sessions, packet, late>>

\* count_thread has reached the duration: it clears RUNNING and leaves.
CountStore ==
    /\ Alive /\ perf.counter.at = "store"
    /\ perf' = [perf EXCEPT !.RUNNING = FALSE, !.counter.at = "exited"]
    /\ UNCHANGED <<mrrs, pc, op, addr, total_len, cap, p, received, len, cur,
                   recv_hdr, recv_buf, dest, err, nSent, lastReq, remoteNext,
                   hist, sessions, packet, late>>

\* The Ctrl-C handler runs.
CtrlC ==
    /\ Alive /\ perf.RUNNING
    /\ perf' = [perf EXCEPT !.RUNNING = FALSE]
    /\ UNCHANGED <<mrrs, pc, op, addr, total_len, cap, p, received, len, cur,
                   recv_hdr, recv_buf, dest, err, nSent, lastReq, remoteNext,
                   hist, sessions, packet, late>>

\* Where thread k of benchmark()'s list is: the workers, then the counter.
thread_at(k) ==
    IF k <= perf.nthreads THEN perf.bench[k].at ELSE perf.counter.at

\* th.join().unwrap() on the next thread of the list, which has ended: the
\* unwrap panics if the thread panicked; after the last, benchmark returns.
Join ==
    /\ Alive
    /\ LET k == perf.joined + 1
       IN /\ thread_at(k) \in {"exited", "panicked"}
          /\ perf' = [perf EXCEPT
                        !.joined = k,
                        !.main = IF thread_at(k) = "panicked" THEN "panicked"
                                 ELSE IF k = perf.nthreads + 1 THEN "returned"
                                 ELSE "join"]
    /\ UNCHANGED <<mrrs, pc, op, addr, total_len, cap, p, received, len, cur,
                   recv_hdr, recv_buf, dest, err, nSent, lastReq, remoteNext,
                   hist, sessions, packet, late>>

NextPerf ==
    \/ \E i \in 1..MaxThreads : BenchCheck(i)
    \/ \E i \in 1..MaxThreads, ok \in BOOLEAN : BenchDma(i, ok)
    \/ \E i \in 1..MaxThreads : BenchStore(i)
    \/ CountCheck
    \/ CountWake
    \/ CountStore
    \/ CtrlC
    \/ Join

\* Every thread that can take a step takes one: each dma_read returns and
\* each sleep ends.
FairnessPerf ==
    /\ \A i \in 1..MaxThreads :
          WF_vars(BenchCheck(i) \/ BenchStore(i) \/ \E ok \in BOOLEAN : BenchDma(i, ok))
    /\ WF_vars(CountCheck \/ CountWake \/ CountStore)
    /\ WF_vars(Join)

SpecPerf == InitPerf /\ [][NextPerf]_vars /\ FairnessPerf

\* ------------------------------------------------- sessions and their ports

\* Largest number of sessions alive at once.
MaxSessions == 2

NETTLP_LIBTLP_PORT_BASE == 12288
NETTLP_ADAPTER_PORT_BASE == 16384

\* Mutant of port_of: the adapter direction does not mask the tag.
port_of_unmasked(dir, t) ==
    IF dir = "DmaIssuedByLibTLP" THEN NETTLP_LIBTLP_PORT_BASE + t
    ELSE NETTLP_ADAPTER_PORT_BASE + t

\* The port NetTlp::new chooses for direction dir and tag t.
port_of(dir, t) ==
    IF dir = "DmaIssuedByLibTLP" THEN NETTLP_LIBTLP_PORT_BASE + t
    ELSE NETTLP_ADAPTER_PORT_BASE + (t % 16)

\* The tags, directions and local addresses sessions are created with.
Tags == {0, 1, 15, 16, 17, 255}
Directions == {"DmaIssuedByLibTLP", "DmaIssuedByAdapter"}
LocalAddrs == {"192.168.10.1", "192.168.11.1"}

\* UdpSocket::bind((local_addr, port)) fails when a live socket of the host
\* is bound to the same address and port.
bind_fails(local, port) ==
    \E s \in sessions : s.local = local /\ s.port = port

\* Requester ids: bus, device below 32 and function below 8, as Bdf::new
\* asks for.
Bdfs == {[bus |-> 1, device |-> 0, func |-> 0],
         [bus |-> 18, device |-> 6, func |-> 5]}

\* The session NetTlp::new returns.
NetTlp(bdf, local, t, dir) ==
    [requester |-> bdf, local |-> local, dir |-> dir, tag |-> t,
     port |-> port_of(dir, t)]

InitNew ==
    /\ mrrs \in MrrsValues
    /\ pc = "idle"
    /\ recv_hdr = ZeroHdr /\ recv_buf = <<>>
    /\ NoCall
    /\ sessions = {} /\ packet = NoPacket /\ late = NoLate /\ perf = NoPerf

\* NetTlp::new(bdf, local, remote, t, mrrs, dir): the port is chosen, the
\* socket bound and connected; a failing bind returns the I/O error.
NetTlp_new(bdf, local, t, dir) ==
    /\ Cardinality(sessions) < MaxSessions
    /\ IF bind_fails(local, port_of(dir, t))
       THEN /\ err' = Error("Io", "bind", 0)
            /\ UNCHANGED sessions
       ELSE /\ err' = NoErr
            /\ sessions' = sessions \cup {NetTlp(bdf, local, t, dir)}
    /\ UNCHANGED <<mrrs, pc, op, addr, total_len, cap, p, received, len, cur,
                   recv_hdr, recv_buf, dest, nSent, lastReq, remoteNext, hist,
                   packet, late, perf>>

\* A session is dropped: its socket is closed.
Drop(s) ==
    /\ s \in sessions
    /\ sessions' = sessions \ {s}
    /\ err' = NoErr
    /\ UNCHANGED <<mrrs, pc, op, addr, total_len, cap, p, received, len, cur,
                   recv_hdr, recv_buf, dest, nSent, lastReq, remoteNext, hist,
                   packet, late, perf>>

NextNew ==
    \/ \E bdf \in Bdfs, local \in LocalAddrs, t \in Tags, dir \in Directions :
          NetTlp_new(bdf, local, t, dir)
    \/ \E s \in sessions : Drop(s)

SpecNew == InitNew /\ [][NextNew]_vars

\* ------------------------------------------- send_mr: the bytes of a request

\* An unsigned integer wider than TLC's is written as its bytes, the most
\* significant first: a u64 address is eight of them.
Reverse(v) == [i \in 1..Len(v) |-> v[Len(v) + 1 - i]]
Bytes2(n) == <<n \div 256, n % 256>>

\* The addresses requests are sent to: below, at and above u32::MAX.
WideAddrs ==
    { <<0, 0, 0, 0, 0, 0, 0, 0>>, <<0, 0, 0, 0, 0, 0, 16, 3>>,
      <<0, 0, 0, 0, 18, 52, 86, 121>>, <<0, 0, 0, 0, 255, 255, 255, 255>>,
      <<0, 0, 0, 1, 0, 0, 0, 0>>, <<0, 0, 0, 1, 0, 0, 0, 2>>,
      <<18, 52, 86, 120, 154, 188, 222, 241>> }

\* Mutant of to_be: the value is left in host order.
to_be_noop(host, v) == v

\* to_be of an integer: its bytes swapped on a little-endian host.
to_be(host, v) == IF host = "little" THEN Reverse(v) ELSE v

\* as_bytes of an integer field: its bytes as they lie in memory.
as_bytes(host, v) == IF host = "little" THEN Reverse(v) ELSE v

\* addr <= u32::MAX as u64, and addr as u32.
fits_u32(a) == \A i \in 1..4 : a[i] = 0
as_u32(a) == SubSeq(a, 5, 8)

\* AlignDW::align_dw: self & !0x3.
align_dw(v) == [v EXCEPT ![Len(v)] = @ - (@ % 4)]

\* addr.to_64() as calc_length and calc_be read it: they use the address's
\* low two bits and whether addr + count is 0, so the address is taken
\* modulo 65536, and 65536 more when it is 65536 or above.
to_64(v) ==
    (IF \E i \in 1..(Len(v) - 2) : v[i] # 0 THEN 65536 ELSE 0)
        + v[Len(v) - 1] * 256 + v[Len(v)]

\* Bdf::to_u16 for device < 32 and func < 8.
to_u16(bdf) == bdf.bus * 256 + bdf.device * 8 + bdf.func

\* The fmt_type TlpMrHdr::new chooses.
fmt_type_of(t, addr64) ==
    IF t = "Mrd" THEN (IF addr64 THEN 32 ELSE 0) ELSE (IF addr64 THEN 96 ELSE 64)

\* TlpMrHdr::<T>::new(t, requester, tg, a, cnt).as_bytes(), a being the four
\* bytes of a u32 or the eight of a u64.
TlpMrHdr_bytes(host, t, requester_, tg, a, cnt) ==
    <<fmt_type_of(t, Len(a) = 8), 0>>
        \o as_bytes(host, to_be(host, Bytes2(calc_length(to_64(a), cnt))))
        \o as_bytes(host, to_be(host, Bytes2(to_u16(requester_))))
        \o <<tg, calc_be(to_64(a), cnt)>>
        \o as_bytes(host, to_be(host, align_dw(a)))

\* The datagram send_mr builds: the NetTLP header (seq 0, timestamp 0), the
\* request header in the shape the address asks for, and for a write the
\* cnt bytes of data.
send_mr_packet(host, s, t, a, cnt) ==
    [nh |-> <<0, 0, 0, 0, 0, 0>>,
     mh |-> IF fits_u32(a)
            THEN TlpMrHdr_bytes(host, t, s.requester, s.tag, as_u32(a), cnt)
            ELSE TlpMrHdr_bytes(host, t, s.requester, s.tag, a, cnt),
     data |-> IF t = "Mwr" THEN cnt ELSE 0]

\* One session has been created.
InitSend ==
    /\ mrrs = 512
    /\ pc = "idle"
    /\ recv_hdr = ZeroHdr /\ recv_buf = <<>>
    /\ NoCall
    /\ \E bdf \in Bdfs, t \in Tags, dir \in Directions :
          sessions = {NetTlp(bdf, "192.168.10.1", t, dir)}
    /\ packet = NoPacket /\ late = NoLate /\ perf = NoPerf

\* send_mr(a, cnt, t, data) on the session: the datagram is built and handed
\* to the socket, or the process aborts in calc_lastbe.
SendMr(host, t, a, cnt, sent_ok, overflow_checks) ==
    /\ pc = "idle"
    /\ overflow_checks \in Builds(calc_lastbe_underflows(to_64(a), cnt))
    /\ IF send_mr_panics(to_64(a), cnt, overflow_checks)
       THEN /\ pc' = "panicked"
            /\ err' = Error("panic", "calc_lastbe", 0)
            /\ UNCHANGED <<packet, lastReq>>
       ELSE /\ pc' = "idle"
            /\ err' = IF sent_ok THEN NoErr ELSE Error("Io", "send", 0)
            /\ \E s \in sessions : packet' = send_mr_packet(host, s, t, a, cnt)
            /\ lastReq' = [NoReq EXCEPT !.t = t, !.p = a, !.len = cnt]
    /\ UNCHANGED <<mrrs, op, addr, total_len, cap, p, received, len, cur,
                   recv_hdr, recv_buf, dest, nSent, remoteNext, hist, sessions,
                   late, perf>>

NextSend ==
    \E host \in Hosts, t \in {"Mrd", "Mwr"}, a \in WideAddrs, cnt \in {0, 1, 8},
       ok \in BOOLEAN, oc \in BOOLEAN : SendMr(host, t, a, cnt, ok, oc)

SpecSend == InitSend /\ [][NextSend]_vars

\* ---------------------------------------------- the request header, alone

\* TlpMrHdr::new is about to be called for addr and a count of total_len.
InitMr ==
    /\ mrrs \in MrrsValues
    /\ pc = "idle"
    /\ op = "none"
    /\ addr \in 0..MaxAddr /\ total_len \in 0..MaxCount /\ cap = 0
    /\ p = 0 /\ received = 0 /\ len = 0 /\ cur = 0
    /\ recv_hdr = ZeroHdr /\ recv_buf = <<>> /\ dest = <<>>
    /\ err = NoErr /\ nSent = 0 /\ lastReq = NoReq
    /\ remoteNext = 0 - 1
    /\ hist = NoHist
    /\ sessions = {} /\ packet = NoPacket /\ late = NoLate /\ perf = NoPerf

\* TlpMrHdr::new(t, requester, tag, addr, total_len): the header is built,
\* or the process aborts in calc_lastbe.
NewHeader(t, overflow_checks) ==
    /\ pc = "idle"
    /\ overflow_checks \in Builds(calc_lastbe_underflows(addr, total_len))
    /\ IF send_mr_panics(addr, total_len, overflow_checks)
       THEN /\ pc' = "panicked"
            /\ err' = Error("panic", "calc_lastbe", 0)
            /\ UNCHANGED lastReq
       ELSE /\ pc' = "done"
            /\ lastReq' = TlpMrHdr_new(t, addr, total_len, total_len, 0)
            /\ UNCHANGED err
    /\ UNCHANGED <<mrrs, op, addr, total_len, cap, p, received, len, cur,
                   recv_hdr, recv_buf, dest, nSent, remoteNext, hist>>
    /\ UNCHANGED wire

NextMr == \E t \in {"Mrd", "Mwr"}, oc \in BOOLEAN : NewHeader(t, oc)

SpecMr == InitMr /\ [][NextMr]_vars

\* ------------------------------------------- the completion header, alone

\* Completion headers as their twelve bytes: bytes 2-3 (flags, attributes and
\* length) and 6-7 (status, BCM and byte count) with bits set inside and
\* outside the length and count masks, and low addresses with and without
\* the reserved top bit.
CplHdrBytes ==
    { <<CPL_FMT_TYPE, 0, b2, b3, 0, 0, b6, b7, 0, 0, 0, b11>> :
        b2 \in {0, 1, 4, 252}, b3 \in {0, 1, 2, 3},
        b6 \in {0, 1, 16}, b7 \in {0, 1, 2, 4, 5, 7, 255},
        b11 \in {0, 3, 5, 131} }

\* The receive buffer holds the twelve bytes of a completion header (here
\* recv_buf is the header's bytes, without the payload behind them).
InitCpl ==
    /\ mrrs \in MrrsValues
    /\ pc = "idle"
    /\ recv_hdr = ZeroHdr
    /\ recv_buf \in CplHdrBytes
    /\ NoCall
    /\ sessions = {} /\ packet = NoPacket /\ late = NoLate /\ perf = NoPerf

\* The header is read in place and asked whether it is the last one: pc
\* becomes "done" when is_last_tlp() holds and "recv" when it does not.
ReadHeader(host) ==
    /\ pc = "idle"
    /\ recv_hdr' = TlpCplHdr_read(host, recv_buf)
    /\ pc' = IF is_last_tlp(TlpCplHdr_read(host, recv_buf)) THEN "done" ELSE "recv"
    /\ UNCHANGED <<mrrs, op, addr, total_len, cap, p, received, len, cur,
                   recv_buf, dest, err, nSent, lastReq, remoteNext, hist>>
    /\ UNCHANGED wire

NextCpl == \E host \in Hosts : ReadHeader(host)

SpecCpl == InitCpl /\ [][NextCpl]_vars

\* ---------------------------------------------------------------- properties

\* The bytes of the destination past index i are as dma_read found them.
UntouchedAfter(d, i) == \A j \in 1..Len(d) : j > i => d[j] = UninitByte

\* C1: a dma_read of len > 0 that returns success, every datagram it received
\* being the next fragment of the remote's truthful answer, leaves remote
\* memory byte addr + i in dest[i] for every i below len.
C1_ReadReturnsRemoteBytes ==
    (op = "read" /\ pc = "done" /\ total_len > 0 /\ hist.truthful)
        => \A i \in 1..total_len : dest[i] = Mem(addr + i - 1)

\* A read of 5 bytes at 0xFFD with mrrs 4 succeeded: two chunks, the first
\* one not DW-aligned.
C1_Witness ==
    /\ op = "read" /\ pc = "done" /\ hist.truthful
    /\ addr = 4093 /\ total_len = 5 /\ mrrs = 4 /\ nSent = 2

C3_ChunkLenAtLeastOne ==
    (lastReq.t # "none" /\ lastReq.remain > 0)
        => (lastReq.len >= 1 /\ lastReq.len <= Min(lastReq.remain, mrrs))

\* C4 (as claimed): dma_read with len = 0 sends nothing, waits for nothing and
\* neither fails nor aborts.
C4_ZeroLenReadIsNoOp ==
    (op = "read" /\ total_len = 0)
        => (nSent = 0 /\ pc \notin {"recv", "failed", "panicked"})

\* C5: a dma_write whose addr is not DW-aligned or whose length is not a
\* multiple of 4 is rejected with nothing sent.
C5_UnalignedWriteRejected ==
    (op = "write" /\ (addr % 4 # 0 \/ total_len % 4 # 0))
        => (pc = "panicked" /\ nSent = 0 /\ lastReq = NoReq)

\* dma_write(0x1, 4-byte buffer) was rejected.
C5_Witness ==
    op = "write" /\ addr = 1 /\ total_len = 4 /\ pc = "panicked" /\ nSent = 0

\* C6: when the first receive of a dma_read with len > 0 times out, the call
\* has failed with Timeout and has sent exactly one request.
C6_SilentRemoteTimesOut ==
    (op = "read" /\ total_len > 0 /\ hist.timeouts = 1 /\ hist.nDgrams = 0)
        => (pc = "failed" /\ err.kind = "Timeout" /\ nSent = 1)

\* A read of several chunks timed out on its first receive.
C6_Witness ==
    /\ op = "read" /\ total_len = 5 /\ mrrs = 4 /\ hist.timeouts = 1
    /\ hist.nDgrams = 0 /\ pc = "failed" /\ nSent = 1 /\ received = 0

\* C7: once a send or a reassembly of a call has failed, the call has ended
\* with that error, has sent no request since, and does not report success.
C7_FirstErrorEndsOperation ==
    hist.firstErr # NoErr
        => /\ pc \in {"failed", "panicked"}
           /\ err = hist.firstErr
           /\ nSent = hist.sentAtErr

\* A read failed in its second chunk, the first one being complete.
C7_Witness ==
    /\ op = "read" /\ pc = "failed" /\ hist.firstErr.kind = "InvalidData"
    /\ received > 0 /\ received < total_len /\ nSent = 2

\* Where the current chunk's window of the destination ends, and how far the
\* destination has been written: between chunks both are dma_read's received.
WindowEnd == IF pc \in {"loop", "done"} THEN received ELSE received + len
WritePos == IF pc \in {"loop", "done"} THEN received ELSE received + cur

\* C8: in a dma_read the write cursor of the reassembly never exceeds the
\* chunk's length, no byte of the destination past the cursor of the current
\* chunk (so none at index >= len) is ever written, and a receive leaves the
\* bytes before the current chunk's window as they were.
C8_CopyStaysInWindow ==
    [][ op' = "read" =>
          /\ cur' <= len'
          /\ WindowEnd' <= total_len'
          /\ UntouchedAfter(dest', WritePos')
          /\ pc = "recv" =>
                \A j \in 1..Len(dest) : j <= received => dest'[j] = dest[j]
      ]_vars

\* A misbehaving remote had part of its data copied and was then rejected by
\* the check against the room left in the window.
C8_Witness ==
    /\ op = "read" /\ pc = "failed" /\ ~hist.truthful
    /\ err = Error("InvalidData", "internal", 0)
    /\ cur > 0 /\ cur < len

\* A datagram the history saw that is long enough to hold both headers and
\* whose header says completion without data.
SawCompletionWithoutData(l) ==
    l.n >= nh_size + cpl_size /\ l.fmt_type = CPL_NODATA_FMT_TYPE

\* C9: when the reassembly loop takes a datagram whose header says completion
\* without data, dma_read fails with InvalidAddress carrying the address of the
\* outstanding request, and the destination is left as it was.
C9_CompletionWithoutDataIsInvalidAddress ==
    [][ (pc = "recv" /\ hist'.last # NoDgram /\ SawCompletionWithoutData(hist'.last))
          => /\ pc' = "failed"
             /\ err' = Error("InvalidAddress", "", lastReq.p)
             /\ dest' = dest
      ]_vars

\* The second request of a read was answered by a completion without data.
C9_Witness ==
    /\ op = "read" /\ pc = "failed" /\ SawCompletionWithoutData(hist.last)
    /\ err.kind = "InvalidAddress" /\ err.addr = 4096 /\ received > 0

\* The error detail the validation gives datagram l, "" when it passes or is
\* a completion without data.
ExpectedMalformed(l) ==
    IF l.n < nh_size + cpl_size THEN "short"
    ELSE IF l.fmt_type \notin {CPL_FMT_TYPE, CPL_NODATA_FMT_TYPE} THEN "fmt"
    ELSE IF l.fmt_type = CPL_FMT_TYPE /\ l.status # 0 THEN "status"
    ELSE ""

\* C10 (as claimed): every datagram that is short, or whose format/type is
\* neither completion, or whose status is not success, is rejected as
\* malformed data, with nothing copied.
C10_AnyBadStatusIsMalformed ==
    [][ (pc = "recv" /\ hist'.last # NoDgram
            /\ (\/ hist'.last.n < nh_size + cpl_size
                \/ hist'.last.fmt_type \notin {CPL_FMT_TYPE, CPL_NODATA_FMT_TYPE}
                \/ hist'.last.status # 0))
          => /\ pc' = "failed"
             /\ err'.kind = "InvalidData"
             /\ dest' = dest
      ]_vars

\* C10 (amended): every datagram that is short, or else has a format/type that
\* is neither completion, or else is a completion with data whose status is
\* not success, is rejected as malformed data for the first of these reasons
\* that applies, with nothing copied; a short datagram is rejected as short
\* whatever its header bytes say.
C10_MalformedRejectedInOrder ==
    [][ (pc = "recv" /\ hist'.last # NoDgram /\ ExpectedMalformed(hist'.last) # "")
          => /\ pc' = "failed"
             /\ err' = Error("InvalidData", ExpectedMalformed(hist'.last), 0)
             /\ dest' = dest
             /\ cur' = cur
      ]_vars

\* A datagram too short to hold the headers, whose first header byte says
\* completion without data, was rejected as short.
C10_Witness ==
    /\ op = "read" /\ pc = "failed"
    /\ hist.last.n = 7 /\ hist.last.fmt_type = CPL_NODATA_FMT_TYPE
    /\ err = Error("InvalidData", "short", 0)

\* Bit b of the nibble x.
BitSet(x, b) == (x \div Pow2(b)) % 2 = 1

\* The lowest and the highest set bit of the nibble x; 4 and -1 when none is.
LowestBit(x) == IF x = 0 THEN 4 ELSE CHOOSE b \in 0..3 :
                    BitSet(x, b) /\ \A c \in 0..3 : BitSet(x, c) => b <= c
HighestBit(x) == IF x = 0 THEN 0 - 1 ELSE CHOOSE b \in 0..3 :
                    BitSet(x, b) /\ \A c \in 0..3 : BitSet(x, c) => c <= b

\* C12 (as claimed): for every address and count, count 0 and address 0
\* included, the byte enables are computed without arithmetic underflow; bit b
\* of the first nibble is set exactly when byte b of the first DW is in
\* [address, address + count); the last nibble is 0 when the range lies in one
\* DW, and otherwise has bit b set exactly when byte b of the final DW is in
\* the range.
C12_ByteEnablesCoverRange ==
    (pc # "idle") =>
        /\ pc # "panicked"
        /\ ~calc_lastbe_underflows(addr, total_len)
        /\ LET first == lastReq.dw % 16
               last == lastReq.dw \div 16
               dw0 == addr - (addr % 4)
               end == addr + total_len
               dwN == ((end - 1) \div 4) * 4
           IN /\ \A b \in 0..3 :
                    BitSet(first, b) <=> (addr <= dw0 + b /\ dw0 + b < end)
              /\ IF end <= dw0 + 4
                 THEN last = 0
                 ELSE \A b \in 0..3 :
                         BitSet(last, b) <=> (addr <= dwN + b /\ dwN + b < end)

C14_DifferentTagsDifferentPorts ==
    \A s1 \in sessions, s2 \in sessions :
        (s1.dir = s2.dir /\ s1.tag # s2.tag) => s1.port # s2.port

\* C14 (amended): a session's port is 0x3000 + tag in the core-issued
\* direction and 0x4000 + (tag & 0xF) in the adapter-issued one; two sessions
\* of the core-issued direction with different tags have different ports; two
\* sessions of the adapter-issued direction have different ports exactly when
\* their tags differ in the low four bits; and no two live sessions are bound
\* to the same local address and port.
C14_PortsByDirection ==
    /\ \A s \in sessions :
          s.port = IF s.dir = "DmaIssuedByLibTLP" THEN 12288 + s.tag
                   ELSE 16384 + (s.tag % 16)
    /\ \A s1 \in sessions, s2 \in sessions :
          /\ (s1.dir = "DmaIssuedByLibTLP" /\ s2.dir = s1.dir /\ s1.tag # s2.tag)
                => s1.port # s2.port
          /\ (s1.dir = "DmaIssuedByAdapter" /\ s2.dir = s1.dir)
                => ((s1.port # s2.port) <=> (s1.tag % 16 # s2.tag % 16))
          /\ (s1 # s2) => (s1.local # s2.local \/ s1.port # s2.port)

\* Two sessions of the adapter-issued direction, tags 0 and 16, live at once
\* and bound to the same port number on two local addresses.
C14_Witness ==
    \E s1 \in sessions, s2 \in sessions :
        /\ s1.dir = "DmaIssuedByAdapter" /\ s2.dir = "DmaIssuedByAdapter"
        /\ s1.tag = 0 /\ s2.tag = 16
        /\ s1.port = 16384 /\ s2.port = 16384

\* C15: every request a session sends has the 12-byte header with fmt/type
\* 0b0000_0000 (read) or 0b0100_0000 (write) when its address is at most
\* 0xFFFF_FFFF and the 16-byte header with 0b0010_0000 or 0b0110_0000
\* otherwise; the address bytes are big-endian with the low two bits cleared;
\* bytes 4-5 are the session's requester id, big-endian, and byte 6 its tag.
C15_HeaderShapeFollowsAddress ==
    packet # NoPacket =>
        LET a == lastReq.p
            mh == packet.mh
            above == \E i \in 1..4 : a[i] # 0
            aligned == [a EXCEPT ![8] = @ - (@ % 4)]
        IN /\ Len(mh) = IF above THEN 16 ELSE 12
           /\ mh[1] = (IF above THEN 32 ELSE 0) + (IF lastReq.t = "Mwr" THEN 64 ELSE 0)
           /\ SubSeq(mh, 9, Len(mh)) = IF above THEN aligned ELSE SubSeq(aligned, 5, 8)
           /\ \A s \in sessions :
                 /\ mh[5] = s.requester.bus
                 /\ mh[6] = s.requester.device * 8 + s.requester.func
                 /\ mh[7] = s.tag

\* A write request to 0x1234_5678_9ABC_DEF1 by the session of requester
\* 12:06.5 and tag 255: the 16-byte header, the address ending in 0xF0.
C15_Witness ==
    /\ packet # NoPacket /\ lastReq.t = "Mwr"
    /\ packet.mh = <<96, 0, 0, 3, 18, 53, 255, 30,
                     18, 52, 86, 120, 154, 188, 222, 240>>

\* C16 (as claimed): dma_read(0x3, len 7) whose request is answered by a
\* single completion with data of 2 DWs (lowaddr 3, count 7, length 2, status
\* success) has completed with success, the destination holding the 7 bytes
\* that start at offset 3 of the payload, each of them a byte of the payload.
C16_TwoDWCompletionCompletesRead ==
    (/\ op = "read" /\ addr = 3 /\ total_len = 7
     /\ hist.nDgrams = 1 /\ hist.last.n = nh_size + cpl_size + 8
     /\ recv_hdr = [fmt_type |-> CPL_FMT_TYPE, status |-> 0,
                    length |-> 2, count |-> 7, lowaddr |-> 3])
        => /\ pc = "done"
           /\ \A i \in 1..7 : dest[i] = Mem(3 + i - 1)

\* What C17 says of a dma_read of 1024 bytes with mrrs = 512 whose requests the
\* remote answers in completions of at most 256 bytes, but for the number of
\* fragments: a finished call has sent at least 2 requests; a request's
\* reassembly has ended exactly when the last fragment it took satisfies
\* is_last_tlp(); the call fails only by a timeout or a failed send; and a
\* finished call has the 1024 remote bytes in order in the destination.
SplitReadReassembles ==
    (op = "read" /\ total_len = 1024) =>
        /\ pc = "done" => nSent >= 2
        /\ (pc \in {"loop", "done"} /\ nSent >= 1) => is_last_tlp(recv_hdr)
        /\ (pc = "recv" /\ hist.frags >= 1) => ~is_last_tlp(recv_hdr)
        /\ pc # "panicked"
        /\ pc = "failed" => err.kind \in {"Timeout", "Io"}
        /\ pc = "done" => \A i \in 1..1024 : dest[i] = Mem(addr + i - 1)

\* C17 (as claimed): such a read reassembles as above, and every request's
\* reassembly has taken at least 2 fragments when it ends.
C17_EveryRequestTakesTwoFragments ==
    /\ SplitReadReassembles
    /\ (op = "read" /\ total_len = 1024 /\ pc \in {"loop", "done"} /\ nSent >= 1)
          => hist.frags >= 2

\* C17 (amended): such a read reassembles as above, and every request for
\* more than 256 bytes has taken at least 2 fragments when its reassembly
\* ends; at a page-aligned address the call sends exactly 2 requests.
C17_LargeRequestTakesTwoFragments ==
    /\ SplitReadReassembles
    /\ (op = "read" /\ total_len = 1024 /\ pc \in {"loop", "done"} /\ nSent >= 1
            /\ lastReq.len > MaxFragment)
          => hist.frags >= 2
    /\ (op = "read" /\ total_len = 1024 /\ pc = "done" /\ addr % 4096 = 0)
          => nSent = 2

\* The read of 1024 bytes at 0x3 has finished: two requests of 512 bytes, the
\* second answered in at least two fragments.
C17_Witness ==
    /\ op = "read" /\ pc = "done" /\ addr = 3 /\ total_len = 1024
    /\ nSent = 2 /\ lastReq.p = 515 /\ lastReq.len = 512 /\ hist.frags = 2
    /\ dest[1024] = Mem(1026)

\* A step of the reassembly loop that took a datagram, found nothing wrong
\* with it and copied its payload.
FragmentAccepted == pc = "recv" /\ pc' \in {"recv", "loop", "done"}

\* C18 (as claimed): the bytes copied from an accepted fragment are
\* min(count, length*4 - offset) many, offset being lowaddr & 3, and they are
\* the bytes of the receive buffer from transport header + completion header
\* + offset on (stated for headers whose length*4 is at least offset).
C18_PayloadSizeIsMinCountRoom ==
    [][ (FragmentAccepted /\ recv_hdr'.length * 4 >= recv_hdr'.lowaddr % 4) =>
          /\ hist'.copied = Min(recv_hdr'.count,
                                recv_hdr'.length * 4 - (recv_hdr'.lowaddr % 4))
          /\ \A i \in 1..hist'.copied :
                dest'[received + cur + i] = recv_buf'[(recv_hdr'.lowaddr % 4) + i]
      ]_vars

\* C19 (as claimed): the span copied from an accepted fragment ends within
\* the n bytes received in its datagram, and no byte copied comes from the
\* zero fill of the receive buffer (stated for fragments that copy a byte).
C19_CopiedSpanWithinDatagram ==
    [][ (FragmentAccepted /\ hist'.copied > 0) =>
          /\ nh_size + cpl_size + (recv_hdr'.lowaddr % 4) + hist'.copied
                <= recv_n(hist'.last, len)
          /\ \A i \in 1..hist'.copied : dest'[received + cur + i] # ZeroByte
      ]_vars

\* C20: the reassembly of a request ends with success exactly on a step that
\* took a datagram, found it valid, copied it and whose header has
\* length = ((lowaddr & 3) + count + 3) >> 2; any other accepted fragment
\* leaves the loop receiving for the same request, whether it is the first
\* fragment or a later one; and no datagram is taken outside the loop.
C20_LeavesReceivingOnLastTlp ==
    [][ LET h == recv_hdr'
            last == h.length = ((h.lowaddr % 4) + h.count + 3) \div 4
        IN /\ FragmentAccepted =>
                 /\ (pc' \in {"loop", "done"}) <=> last
                 /\ pc' = "recv" =>
                       (nSent' = nSent /\ lastReq' = lastReq /\ len' = len /\ p' = p)
                 /\ hist'.last.n >= nh_size + cpl_size
                 /\ hist'.last.fmt_type = CPL_FMT_TYPE /\ hist'.last.status = 0
           /\ pc # "recv" =>
                 /\ hist'.nDgrams <= hist.nDgrams
                 /\ hist'.frags <= hist.frags
                 /\ dest' \in {dest, <<>>} \/ pc = "idle"
      ]_vars

\* A reassembly that stayed receiving after its first fragment and ended on
\* a later one, whose header satisfies is_last_tlp().
C20_Witness ==
    /\ op = "read" /\ pc \in {"loop", "done"} /\ nSent >= 1
    /\ hist.frags = 2 /\ hist.copied > 0 /\ is_last_tlp(recv_hdr)

\* A step of dma_read that sent a Memory-Read request.
ReadRequestSent == op = "read" /\ nSent' = nSent + 1

\* C21: within one dma_read a request is sent only from the loop, never
\* while one is outstanding; every request but the first is sent after the
\* chain of the one before ended without error on a fragment that satisfies
\* is_last_tlp(); the first request starts at addr, every later one where
\* the one before ended; and a call that succeeds has requested chunks that
\* end at addr + len, so their lengths sum to len.
C21_RequestsAlternateAndAreContiguous ==
    /\ [][ /\ ReadRequestSent =>
                 /\ pc = "loop" /\ pc' = "recv"
                 /\ lastReq'.t = "Mrd"
                 /\ (nSent = 0) => (lastReq'.p = addr)
                 /\ (nSent >= 1) =>
                       (/\ err = NoErr /\ hist.frags >= 1 /\ is_last_tlp(recv_hdr)
                        /\ lastReq'.p = lastReq.p + lastReq.len
                        /\ lastReq'.p >= lastReq.p)
           /\ (op = "read" /\ pc = "recv") => (nSent' = nSent)
       ]_vars
    /\ [](op = "read" /\ pc = "done" =>
             (/\ nSent >= 1
              /\ lastReq.p + lastReq.len = addr + total_len))

\* A read of more than one chunk has succeeded.
C21_Witness ==
    op = "read" /\ pc = "done" /\ nSent >= 2 /\ received = total_len

\* A step of dma_write that sent a Memory-Write request.
WriteRequestSent == op = "write" /\ nSent' = nSent + 1

\* C22: a dma_write whose assertion passed never receives; every datagram it
\* sends is a Memory-Write for address addr + sent that carries the slice
\* src[sent .. sent + chunk_len); the slices follow one another from 0 on;
\* sent advances by the chunk exactly on the steps that sent a datagram; and
\* a call that succeeds has sent slices that end at src's length.
C22_WritesSendContiguousSlicesOnly ==
    /\ [][ /\ WriteRequestSent =>
                 /\ pc = "loop"
                 /\ lastReq'.t = "Mwr"
                 /\ lastReq'.p = addr + received
                 /\ lastReq'.lo = received
                 /\ lastReq'.hi = received + lastReq'.len
                 /\ received' = lastReq'.hi
                 /\ lastReq'.lo = IF nSent = 0 THEN 0 ELSE lastReq.hi
           /\ (op = "write" /\ nSent' = nSent) =>
                 (received' = received \/ pc' = "idle")
       ]_vars
    /\ [](op = "write" =>
             (pc # "recv" /\ hist.nDgrams = 0 /\ recv_buf = <<>> /\ dest = <<>>))
    /\ [](op = "write" /\ pc = "done" =>
             (nSent >= 1 /\ lastReq.hi = total_len))

\* A write of three chunks or more has succeeded.
C22_Witness ==
    /\ op = "write" /\ pc = "done" /\ nSent >= 3
    /\ lastReq.lo > 0 /\ lastReq.hi = total_len

\* C23 (as claimed): whatever the remote sends, when the receive loop of a
\* chunk ends with success the bytes copied for the chunk are chunk_len many,
\* and a dma_read that has succeeded has had every byte of dest[0..len)
\* written by a completion.
C23_DoneChunkIsFullyCopied ==
    /\ [][ (op = "read" /\ pc = "recv" /\ pc' \in {"loop", "done"}) =>
              (cur' = len)
       ]_vars
    /\ [](op = "read" /\ pc = "done" =>
             \A i \in 1..total_len : dest[i] # UninitByte)

\* C24 (as claimed): for every completion header that reaches the span
\* arithmetic of the receive loop, end >= start, and no call is aborted by
\* an underflow of end - start.
C24_SpanArithmeticNeverUnderflows ==
    /\ [][ (/\ op = "read" /\ pc = "recv"
             /\ hist'.last.n >= nh_size + cpl_size
             /\ is_completion_with_data(recv_hdr')
             /\ is_valid_status(recv_hdr')) =>
              (span_end(recv_hdr') >= span_start(recv_hdr'))
       ]_vars
    /\ [](~(pc = "panicked" /\ err = Error("panic", "span", 0)))

\* C25 (as claimed): whatever the remote sends, a receive loop that is
\* running ends: no sequence of accepted datagrams keeps a dma_read
\* receiving forever.
C25_ReceiveLoopEnds == (op = "read" /\ pc = "recv") ~> (pc # "recv")

\* The receive loop takes the completion that was sent in answer to the
\* request of an earlier call.
StaleTaken == pc = "recv" /\ late # NoLate /\ late' = NoLate

\* C26 (as claimed): a completion sent in answer to the request of an earlier
\* dma_read that timed out is not accepted by a later dma_read of the
\* session: none of its bytes is copied into the destination and it does
\* not end the request of the later call.
C26_StaleCompletionNotAccepted ==
    [][ StaleTaken =>
          (hist'.copied = 0 /\ dest' = dest /\ pc' \notin {"loop", "done"})
      ]_vars

\* C27 (as claimed): in every request sent, the 16-bit field of header bytes
\* 2-3 has its upper 6 bits zero and its low 10 bits equal to the number of
\* DWs that cover the chunk.
C27_LengthFitsTenBits ==
    lastReq.t # "none" =>
        LET b == Bytes2(lastReq.falen)
            dws == (lastReq.p + lastReq.len + 3) \div 4 - lastReq.p \div 4
        IN /\ b[1] \div 4 = 0
           /\ (b[1] % 4) * 256 + b[2] = dws

\* C28 (as claimed): RUNNING is never set back to true, and once it is
\* cleared the benchmark ends with every worker and the counter thread out
\* of their loops and benchmark() returned from joining them: when the
\* process has stopped with the flag cleared, that is how it stopped.
C28_ClearedFlagEndsBenchmark ==
    /\ [][(~perf.RUNNING) => (~perf'.RUNNING)]_vars
    /\ []((~perf.RUNNING /\ perf.main \notin {"none", "join"}) =>
            (/\ perf.main = "returned"
             /\ \A i \in 1..perf.nthreads : perf.bench[i].at = "exited"
             /\ perf.counter.at = "exited"))

\* C11: for every completion header, is_last_tlp() holds exactly when
\* length = ((lowaddr & 3) + count + 3) >> 2, length being the low 10 bits of
\* header bytes 2-3 and count the low 12 bits of header bytes 6-7, both
\* big-endian; so it holds for lowaddr = 3, count = 1, length = 1.
C11_IsLastTlpFormula ==
    pc # "idle" =>
        LET length10 == (recv_buf[3] * 256 + recv_buf[4]) % 1024
            count12 == (recv_buf[7] * 256 + recv_buf[8]) % 4096
            lowaddr == recv_buf[12]
        IN /\ (pc = "done") <=> (length10 = ((lowaddr % 4) + count12 + 3) \div 4)
           /\ (lowaddr = 3 /\ count12 = 1 /\ length10 = 1) => pc = "done"

\* The header with lowaddr = 3, count = 1, length = 1, and with every flag
\* bit above the length set, was found to be the last.
C11_Witness ==
    /\ pc = "done"
    /\ recv_buf[12] = 3 /\ recv_buf[7] = 0 /\ recv_buf[8] = 1
    /\ recv_buf[3] = 252 /\ recv_buf[4] = 1

====
